---- MODULE Spec2Model ----
(***************************************************************************)
(* A model of msas-rmobgen (src/rmobgen.py): the aggregation of a monthly  *)
(* observation log into the diurnal table and the threshold map            *)
(* (RmobData), the text report, the colorgramme (RmobColorgramme), the     *)
(* color ramp and the cooldown gate of the file watcher                    *)
(* (FileChangeHandler).                                                    *)
(*                                                                         *)
(* Text is a sequence of one-character strings.  A float is a fixed-point  *)
(* number: the integer floor(x * Scale).  For an integer k and a real x,   *)
(* k > x iff k * Scale > floor(x * Scale), so every comparison the code    *)
(* makes between a count and a threshold is exact in this representation.  *)
(***************************************************************************)
EXTENDS Integers, Sequences, FiniteSets, TLC

VARIABLES
    phase,        \* RmobData: "init" (in __init__, before its update), "live", "dead"
    diurnal,      \* RmobData.diurnal: date_str -> (hour -> count)
    first_date,   \* RmobData.first_date
    last_date,    \* RmobData.last_date
    thresholds,   \* RmobData.thresholds: ordinal -> threshold (fixed point)
    calls,        \* number of update calls made so far
    lastcall,     \* the last update call: its month, its local table, its key, its
                  \* outcome, and whether it repeats the successful call before it
    max_counts,   \* by period (ordinal of its month): max_count (line 194) of the
                  \* last update of the period that returned
    op,           \* the last operation called
    raised,       \* the exception the last operation raised, "" when it returned
    ret,          \* what the last operation returned or wrote
    img,          \* RmobColorgramme._img: whether the attribute exists, whether a
                  \* render completed on it, and what is drawn
    cooldown,     \* FileChangeHandler.cooldown
    file_path,    \* FileChangeHandler.file_path
    regens,       \* number of times the handler function was invoked
    elapsed,      \* seconds ticked since the last invocation (capped at Cooldown)
    value,        \* _get_color: argument value
    max_value,    \* _get_color: argument max_value
    rgb,          \* _get_color: the color returned, <<>> before the call
    est_counts,   \* the threshold estimate alone: the list counts (line 189)
    est_max_count \* the threshold estimate alone: max_count (line 194), -1 before

vars == <<phase, diurnal, first_date, last_date, thresholds, calls, lastcall,
          max_counts,
          op, raised, ret, img, cooldown, file_path, regens, elapsed,
          value, max_value, rgb, est_counts, est_max_count>>

dataVars == <<phase, diurnal, first_date, last_date, thresholds, calls, lastcall,
              max_counts>>
estVars == <<est_counts, est_max_count>>
callVars == <<op, raised, ret>>
watchVars == <<cooldown, file_path, regens, elapsed>>
colorVars == <<value, max_value, rgb>>

(***************************************************************************)
(* Bounds of the model.                                                    *)
(***************************************************************************)
MaxRows == 3        \* rows in one log file
MaxUpdates == 2     \* update calls on one RmobData (the constructor's included)
Scale == 10         \* fixed-point resolution of a float
MaxRegens == 2      \* invocations of the handler function that are counted
MaxValue == 20      \* largest value given to _get_color
MaxScale == 9       \* largest max_value given to _get_color

(***************************************************************************)
(* Text and integers.                                                      *)
(***************************************************************************)
Min2(a, b) == IF a <= b THEN a ELSE b
Max2(a, b) == IF a >= b THEN a ELSE b

Digits == <<"0", "1", "2", "3", "4", "5", "6", "7", "8", "9">>

IsDigit(ch) == \E i \in 1..10 : Digits[i] = ch

DigitVal(ch) == (CHOOSE i \in 1..10 : Digits[i] = ch) - 1

\* int(s) succeeds: s is a non-empty string of decimal digits
IsInt(s) == Len(s) > 0 /\ \A i \in 1..Len(s) : IsDigit(s[i])

RECURSIVE ParseInt(_)
\* int(s), for s with IsInt(s)
ParseInt(s) ==
    IF Len(s) = 0 THEN 0
    ELSE 10 * ParseInt(SubSeq(s, 1, Len(s) - 1)) + DigitVal(s[Len(s)])

\* s[a:b] of Python, a and b 0-based with b exclusive
Slice(s, a, b) == SubSeq(s, Min2(a, Len(s)) + 1, Min2(b, Len(s)))

RECURSIVE FormatInt(_)
\* str(n) for n >= 0
FormatInt(n) ==
    IF n < 10 THEN <<Digits[n + 1]>>
    ELSE FormatInt(n \div 10) \o <<Digits[(n % 10) + 1]>>

RECURSIVE ZeroPad(_, _)
\* "{:0w}".format(n) for n >= 0
ZeroPad(s, w) == IF Len(s) >= w THEN s ELSE ZeroPad(<<"0">> \o s, w)

RECURSIVE SpacePad(_, _)
\* "{:w}".format(s) for a string s: left-aligned, filled with spaces
SpacePad(s, w) == IF Len(s) >= w THEN s ELSE SpacePad(s \o <<" ">>, w)

(***************************************************************************)
(* Calendar: datetime.date of the standard library.                        *)
(***************************************************************************)
IsLeap(y) == (y % 4 = 0) /\ ((y % 100 # 0) \/ (y % 400 = 0))

DaysInMonth(y, m) ==
    IF m = 2 THEN (IF IsLeap(y) THEN 29 ELSE 28)
    ELSE IF m \in {4, 6, 9, 11} THEN 30 ELSE 31

RECURSIVE DaysBeforeMonth(_, _)
DaysBeforeMonth(y, m) ==
    IF m <= 1 THEN 0 ELSE DaysBeforeMonth(y, m - 1) + DaysInMonth(y, m - 1)

DaysBeforeYear(y) ==
    (y - 1) * 365 + ((y - 1) \div 4) - ((y - 1) \div 100) + ((y - 1) \div 400)

\* datetime.date(year, month, day) does not raise ValueError
ValidDate(y, m, d) ==
    /\ y \in 1..9999
    /\ m \in 1..12
    /\ d >= 1 /\ d <= DaysInMonth(y, m)

\* date.toordinal()
ToOrdinal(date) ==
    DaysBeforeYear(date.year) + DaysBeforeMonth(date.year, date.month) + date.day

Years == {2023}
Months == {[year |-> 2023, month |-> 1, day |-> 1],
           [year |-> 2023, month |-> 2, day |-> 1]}

Calendar ==
    {[year |-> y, month |-> m, day |-> d] :
        y \in Years, m \in {mm.month : mm \in Months}, d \in 1..31}

\* datetime.date.fromordinal(n), for n a day of the calendar of the model
FromOrdinal(n) ==
    CHOOSE date \in Calendar :
        ValidDate(date.year, date.month, date.day) /\ ToOrdinal(date) = n

\* date.strftime("%Y-%m-%d")
StrfDate(date) ==
    ZeroPad(FormatInt(date.year), 4) \o <<"-">> \o
    ZeroPad(FormatInt(date.month), 2) \o <<"-">> \o
    ZeroPad(FormatInt(date.day), 2)

\* date.strftime("%m%Y")
StrfMonthRev(date) ==
    ZeroPad(FormatInt(date.month), 2) \o ZeroPad(FormatInt(date.year), 4)

(***************************************************************************)
(* The log files.  A row is the list of its fields, row.split(","), each   *)
(* field a text.  The file RMOB-YYYYMM.dat of a month holds at most        *)
(* MaxRows rows, in any order, of that month's observations, and may hold  *)
(* empty lines and rows whose count or hour is not a number.               *)
(***************************************************************************)
D0101 == <<"2", "0", "2", "3", "0", "1", "0", "1">>
D0102 == <<"2", "0", "2", "3", "0", "1", "0", "2">>
D0201 == <<"2", "0", "2", "3", "0", "2", "0", "1">>

EmptyLine == << <<>> >>

JanRows ==
    { <<D0101, <<"0", "0">>, <<"9">> >>,
      <<D0101, <<"0", "1">>, <<"1">> >>,
      <<D0102, <<"0", "0">>, <<"1">> >>,
      <<D0102, <<"0", "1">>, <<"x">> >>,
      <<D0102, <<"x">>, <<"1">> >>,
      EmptyLine }

FebRows ==
    { <<D0201, <<"0", "0">>, <<"9">> >>,
      <<D0201, <<"0", "1">>, <<"x">> >>,
      EmptyLine }

RowsOf(month) == IF month.month = 1 THEN JanRows ELSE FebRows

FilesOf(month) == UNION {[1..n -> RowsOf(month)] : n \in 0..MaxRows}

(***************************************************************************)
(* RmobData.update                                                         *)
(***************************************************************************)
NoTable == [d \in {} |-> 0]

\* d[k] = v on a dict d
Put(d, k, v) == [x \in DOMAIN d \cup {k} |-> IF x = k THEN v ELSE d[x]]

\* d.update(e) on dicts d and e
DictUpdate(d, e) ==
    [x \in DOMAIN d \cup DOMAIN e |-> IF x \in DOMAIN e THEN e[x] ELSE d[x]]

\* defaultdict(dict): d[k], the entry made empty when it is missing
Entry(d, k) == IF k \in DOMAIN d THEN d[k] ELSE NoTable

\* The body of the loop over the rows (lines 170-187) on one row.  acc holds
\* the local table, date_ord, self.first_date, self.last_date and the
\* exception raised ("" while none is).
UpdateRow(acc, cols) ==
    IF Len(cols) < 3 THEN acc
    ELSE
      LET year == Slice(cols[1], 0, 4)
          month == Slice(cols[1], 4, 6)
          day == Slice(cols[1], 6, 8)
          hour == cols[2]
      IN  IF ~IsInt(cols[3]) THEN [acc EXCEPT !.raised = "ValueError"]
          ELSE IF ~(IsInt(year) /\ IsInt(month) /\ IsInt(day))
               THEN [acc EXCEPT !.raised = "ValueError"]
          ELSE IF ~ValidDate(ParseInt(year), ParseInt(month), ParseInt(day))
               THEN [acc EXCEPT !.raised = "ValueError"]
          ELSE IF ~IsInt(hour) THEN [acc EXCEPT !.raised = "ValueError"]
          ELSE
            LET count == ParseInt(cols[3])
                date == [year |-> ParseInt(year), month |-> ParseInt(month),
                         day |-> ParseInt(day)]
                date_ord == ToOrdinal(date)
                date_str == year \o <<"-">> \o month \o <<"-">> \o day
            IN  [acc EXCEPT
                    !.date_ord = date_ord,
                    !.diurnal = Put(acc.diurnal, date_str,
                                    Put(Entry(acc.diurnal, date_str),
                                        ParseInt(hour), count)),
                    !.first_date = Min2(acc.first_date, date_ord),
                    !.last_date = Max2(acc.last_date, date_ord)]

RECURSIVE UpdateLoop(_, _, _)
\* for row in rows (lines 169-187), from row i on; an exception ends the loop
UpdateLoop(acc, rows, i) ==
    IF i > Len(rows) \/ acc.raised # "" THEN acc
    ELSE UpdateLoop(UpdateRow(acc, rows[i]), rows, i + 1)

\* The cells (date_str, hour) of a table
Cells(table) == {c \in UNION {{<<d, h>> : h \in DOMAIN table[d]} : d \in DOMAIN table} : TRUE}

RECURSIVE CountsIn(_, _)
\* The counts of the cells cs of a table, as a list
CountsIn(table, cs) ==
    IF cs = {} THEN <<>>
    ELSE LET c == CHOOSE x \in cs : TRUE
         IN  <<table[c[1]][c[2]]>> \o CountsIn(table, cs \ {c})

\* counts (lines 189-191): the counts of the local table, all its dates.  The
\* code lists them by date; the sum, the length and the maximum that are
\* taken of the list do not depend on its order.
CountsOf(table) == CountsIn(table, Cells(table))

RECURSIVE Sum(_)
Sum(xs) == IF xs = <<>> THEN 0 ELSE Head(xs) + Sum(Tail(xs))

RECURSIVE MaxOf(_)
\* max(xs) of a non-empty list
MaxOf(xs) == IF Len(xs) = 1 THEN xs[1] ELSE Max2(Head(xs), MaxOf(Tail(xs)))

RECURSIVE MinOf(_)
MinOf(xs) == IF Len(xs) = 1 THEN xs[1] ELSE Min2(Head(xs), MinOf(Tail(xs)))

(***************************************************************************)
(* The threshold (lines 192-194), in fixed point.  With n = len(counts)    *)
(* and S = sum(counts), c = S / n and                                      *)
(*   sum((x - c) ** 2 for x in counts) = Dev2 / n^2,                       *)
(*   Dev2 = sum((n*x - S)^2 for x in counts).                              *)
(***************************************************************************)
RECURSIVE Dev2From(_, _, _)
Dev2From(xs, n, s) ==
    IF xs = <<>> THEN 0
    ELSE (n * Head(xs) - s) * (n * Head(xs) - s) + Dev2From(Tail(xs), n, s)

\* n^2 * sum((x - c) ** 2 for x in counts)
Dev2(counts) == Dev2From(counts, Len(counts), Sum(counts))

\* The mutant of SdDenominator: the population variance, len(counts)
SdDenominatorN(counts) == Len(counts)

\* The denominator under the root of sd (line 193): len(counts) + 1
SdDenominator(counts) == Len(counts) + 1

\* t / Scale <= c + sd * 1.28, with sd = (Dev2 / n^2 / SdDenominator) ** 0.5.
\* With L = t*n - Scale*S: L <= 0, or L^2 <= Scale^2 * 1.28^2 * Dev2 / SdDenominator,
\* and 1.28^2 = 1024 / 625.
AtMostMeanSd(t, counts) ==
    LET n == Len(counts)
        L == t * n - Scale * Sum(counts)
    IN  \/ L <= 0
        \/ L * L <= (Scale * Scale * 1024 * Dev2(counts)) \div (625 * SdDenominator(counts))

RECURSIVE SearchMeanSd(_, _, _)
\* The largest t in lo..hi-1 with AtMostMeanSd(t, counts); it holds of lo, not of hi
SearchMeanSd(lo, hi, counts) ==
    IF hi - lo <= 1 THEN lo
    ELSE LET mid == (lo + hi) \div 2
         IN  IF AtMostMeanSd(mid, counts)
             THEN SearchMeanSd(mid, hi, counts)
             ELSE SearchMeanSd(lo, mid, counts)

\* The mutant of MeanPlusSd: sd * 1.28 alone, the mean left out.  It is
\* floor(Scale * 1.28 * sd): the search with every count lowered by the mean,
\* which leaves Dev2 as it is and makes the sum 0.
MeanPlusSdNoMean(counts) ==
    LET n == Len(counts)
        ok(t) == (t * n) * (t * n)
                   <= (Scale * Scale * 1024 * Dev2(counts)) \div (625 * SdDenominator(counts))
    IN  CHOOSE t \in 0..(3 * Scale * MaxOf(counts)) : ok(t) /\ ~ok(t + 1)

\* c + sd * 1.28 (line 194), as floor(Scale * (c + sd * 1.28)).  sd < max(counts),
\* so the value is below 3 * max(counts).
MeanPlusSd(counts) == SearchMeanSd(0, 3 * Scale * MaxOf(counts) + 1, counts)

\* max_count (line 194): min(c + sd * 1.28, max(counts)), for non-empty counts
Estimate(counts) == Min2(MeanPlusSd(counts), Scale * MaxOf(counts))

(***************************************************************************)
(* RmobData.__init__ and RmobData.update                                   *)
(***************************************************************************)
FirstDateInit == 3652059

NoCall == [month |-> 0, batch |-> NoTable, key |-> 0, ok |-> FALSE, again |-> FALSE]
NoRet == [path |-> <<>>, table |-> NoTable]
NoImg == [exists |-> FALSE, complete |-> FALSE, histogram |-> NoTable,
          heatmap |-> NoTable, squares |-> NoTable, peak |-> 0]

\* The fields as __init__ sets them (lines 149-153), before it calls update
InitData ==
    /\ phase = "init"
    /\ diurnal = NoTable
    /\ first_date = FirstDateInit
    /\ last_date = 0
    /\ thresholds = NoTable
    /\ calls = 0
    /\ lastcall = NoCall
    /\ max_counts = NoTable
    /\ op = "new"
    /\ raised = ""
    /\ ret = NoRet
    /\ img = NoImg

\* The key of the threshold (line 197): date_ord, which line 161 sets to the
\* ordinal of the month and line 182 sets again for every row read
ThresholdKey(month, acc) == acc.date_ord

\* The mutant of MergeDiurnal: the counts of a cell read again are added
MergeDiurnalAdding(old, batch) ==
    [d \in DOMAIN old \cup DOMAIN batch |->
        IF d \notin DOMAIN batch THEN old[d]
        ELSE IF d \notin DOMAIN old THEN batch[d]
        ELSE [h \in DOMAIN old[d] \cup DOMAIN batch[d] |->
                (IF h \in DOMAIN old[d] THEN old[d][h] ELSE 0)
                + (IF h \in DOMAIN batch[d] THEN batch[d][h] ELSE 0)]]

\* self.diurnal.update(diurnal) (line 196)
MergeDiurnal(old, batch) == DictUpdate(old, batch)

\* Lines 161-194 of update(month) on the rows of the month's file, on a new
\* RmobData: the loop over the rows, then counts and max_count.  The result
\* holds the local table, date_ord, first_date and last_date as the loop
\* leaves them, the exception raised and, when none is, max_count.
UpdateOnNew(month, rows) ==
    LET acc == UpdateLoop([diurnal |-> NoTable, date_ord |-> ToOrdinal(month),
                           first_date |-> FirstDateInit, last_date |-> 0,
                           raised |-> ""], rows, 1)
        counts == CountsOf(acc.diurnal)
        err == IF acc.raised # "" THEN acc.raised
               ELSE IF counts = <<>> THEN "ZeroDivisionError" ELSE ""
    IN  [diurnal |-> acc.diurnal,
         key |-> ThresholdKey(month, acc),
         first_date |-> acc.first_date,
         last_date |-> acc.last_date,
         raised |-> err,
         max_count |-> IF err = "" THEN Estimate(counts) ELSE 0]

\* UpdateOnNew by file, computed once for every file of the model
UpdateTable ==
    [f \in UNION {{<<month, rows>> : rows \in FilesOf(month)} : month \in Months} |->
        UpdateOnNew(f[1], f[2])] @@ NoTable

\* update(month) on the file rows of the month (lines 156-197).  The loop
\* lowers self.first_date and raises self.last_date row by row (lines
\* 186-187): they end as the minimum and the maximum of their values before
\* the call and the values the loop gives them on a new RmobData.  The
\* constructor's call is the first; when it raises, no RmobData exists.
\* The program aggregates before it reports (rmob_export, lines 75-79): the
\* update calls come before the first report of the RmobData.
Update(month, rows) ==
    /\ phase \in {"init", "live"}
    /\ op \in {"new", "update"}
    /\ calls < MaxUpdates
    /\ LET u == UpdateTable[<<month, rows>>]
       IN  /\ first_date' = Min2(first_date, u.first_date)
           /\ last_date' = Max2(last_date, u.last_date)
           /\ raised' = u.raised
           /\ lastcall' = [month |-> ToOrdinal(month), batch |-> u.diurnal,
                           key |-> u.key, ok |-> (u.raised = ""),
                           again |-> /\ lastcall.ok /\ u.raised = ""
                                     /\ lastcall.month = ToOrdinal(month)
                                     /\ lastcall.batch = u.diurnal
                                     /\ lastcall.key = u.key]
           /\ IF u.raised = ""
              THEN /\ diurnal' = MergeDiurnal(diurnal, u.diurnal)
                   /\ thresholds' = Put(thresholds, u.key, u.max_count)
                   /\ max_counts' = Put(max_counts, ToOrdinal(month), u.max_count)
                   /\ phase' = "live"
              ELSE /\ UNCHANGED <<diurnal, thresholds, max_counts>>
                   /\ phase' = IF phase = "init" THEN "dead" ELSE "live"
    /\ calls' = calls + 1
    /\ op' = "update"
    /\ ret' = NoRet
    /\ UNCHANGED <<img, watchVars, colorVars, estVars>>

(***************************************************************************)
(* RmobData.export_rmob_txt                                                *)
(***************************************************************************)
Sentinel == 999999

OutfilePrefix == <<"o", "u", "t">>

\* The threshold the report uses for a date (lines 220-223)
ReportThreshold(date) ==
    IF ToOrdinal(date) \in DOMAIN thresholds
    THEN thresholds[ToOrdinal(date)]
    ELSE Sentinel * Scale

Placeholder == <<"?", "?", "?", " ", "|">>

\* One cell of the report (lines 227-232)
ReportCell(counts, threshold, h) ==
    IF h \notin DOMAIN counts \/ counts[h] * Scale > threshold THEN Placeholder
    ELSE SpacePad(ZeroPad(FormatInt(counts[h]), 3), 4) \o <<"|">>

\* The table of the report (lines 211-233): a row of 24 cells for every day of
\* the month of last_date
ReportTable ==
    LET last == FromOrdinal(last_date)
    IN  [day \in 1..DaysInMonth(last.year, last.month) |->
            LET date == [last EXCEPT !.day = day]
                counts == Entry(diurnal, StrfDate(date))
                threshold == ReportThreshold(date)
            IN  [h \in 0..23 |-> ReportCell(counts, threshold, h)]]

\* export_rmob_txt() (lines 199-253); the heading and the station's lines,
\* which the configuration decides, are not modelled
ExportRmobTxt ==
    /\ phase = "live"
    /\ op' = "export_rmob_txt"
    /\ raised' = ""
    /\ ret' = [path |-> OutfilePrefix \o <<"_">> \o StrfMonthRev(FromOrdinal(last_date))
                        \o <<"r", "m", "o", "b", ".", "T", "X", "T">>,
               table |-> ReportTable]
    /\ UNCHANGED <<dataVars, img, watchVars, colorVars, estVars>>

(***************************************************************************)
(* RmobColorgramme                                                         *)
(***************************************************************************)
\* The mutant of GetColor: the last domain compared with >=
GetColorGrayAtMax(v, m) ==
    IF v < 0 THEN <<5, 5, 5>>
    ELSE IF v >= m THEN <<128, 128, 128>>
    ELSE IF 3 * v <= m THEN <<0, (765 * v) \div m, 255>>
    ELSE IF 3 * v <= 2 * m
         THEN <<((765 * v) \div m) - 255, 255, ((765 * (m - v)) \div m) - 255>>
    ELSE <<255, (765 * (m - v)) \div m, 0>>

\* _get_color(value, max_value) (lines 540-560) for integers value and
\* max_value > 0.  value <= max_value / 3 is 3 * value <= max_value, and
\* int(3 * value * (255 / max_value)) is (765 * value) \div max_value: for
\* the arguments of this model the floats of the code give these integers.
GetColor(v, m) ==
    IF v < 0 THEN <<5, 5, 5>>
    ELSE IF 3 * v <= m THEN <<0, (765 * v) \div m, 255>>
    ELSE IF 3 * v <= 2 * m
         THEN <<((765 * v) \div m) - 255, 255, ((765 * (m - v)) \div m) - 255>>
    ELSE IF v <= m THEN <<255, (765 * (m - v)) \div m, 0>>
    ELSE <<128, 128, 128>>

\* The largest of a finite set of naturals, 0 for the empty set
MaxIn(S) == IF S = {} THEN 0 ELSE CHOOSE x \in S : \A y \in S : y <= x

\* The histogram's threshold (line 479) exists
HistogramThresholdExists == last_date \in DOMAIN thresholds

\* peak[1] of the histogram (lines 485-488)
HistogramPeak(counts, threshold) ==
    MaxIn({counts[h] : h \in {x \in DOMAIN counts : counts[x] * Scale <= threshold}})

\* The bars of the histogram (lines 491-519), by hour: masked, or a bar of
\* height 88 * count / max(peak, 1)
Histogram ==
    LET threshold == thresholds[last_date]
        counts == Entry(diurnal, StrfDate(FromOrdinal(last_date)))
        peak == HistogramPeak(counts, threshold)
    IN  [h \in DOMAIN counts \cap 0..24 |->
            IF counts[h] * Scale > threshold
            THEN [masked |-> TRUE, height |-> 89 * Scale]
            ELSE [masked |-> FALSE,
                  height |-> (88 * Scale * counts[h]) \div Max2(peak, 1)]]

RECURSIVE SumValues(_, _)
SumValues(f, ks) ==
    IF ks = {} THEN 0
    ELSE LET k == CHOOSE x \in ks : TRUE IN f[k] + SumValues(f, ks \ {k})

\* threshold_avg (line 371)
ThresholdAvg == SumValues(thresholds, DOMAIN thresholds) \div Cardinality(DOMAIN thresholds)

\* datetime.strptime(date, "%Y-%m-%d").toordinal() (line 375)
StrpOrdinal(date_str) ==
    ToOrdinal([year |-> ParseInt(Slice(date_str, 0, 4)),
               month |-> ParseInt(Slice(date_str, 5, 7)),
               day |-> ParseInt(Slice(date_str, 8, 10))])

\* The threshold of a date of the heatmap (lines 375-379)
HeatmapThreshold(date_str) ==
    IF StrpOrdinal(date_str) \in DOMAIN thresholds
    THEN thresholds[StrpOrdinal(date_str)]
    ELSE ThresholdAvg

\* peak[1] of the heatmap (lines 370-383)
HeatmapPeak ==
    MaxIn({diurnal[c[1]][c[2]] :
            c \in {x \in Cells(diurnal) :
                     diurnal[x[1]][x[2]] * Scale <= HeatmapThreshold(x[1])}})

CharCode(ch) == IF ch = "-" THEN 45 ELSE IF IsDigit(ch) THEN 48 + DigitVal(ch) ELSE 120

RECURSIVE LexLeq(_, _)
\* a <= b for strings
LexLeq(a, b) ==
    IF a = <<>> THEN TRUE
    ELSE IF b = <<>> THEN FALSE
    ELSE IF CharCode(Head(a)) # CharCode(Head(b)) THEN CharCode(Head(a)) < CharCode(Head(b))
    ELSE LexLeq(Tail(a), Tail(b))

\* The squares of the heatmap (lines 441-450), by (day, hour): the dates are
\* drawn in sorted order and the square of a later date covers that of an
\* earlier date with the same day of the month
Heatmap ==
    LET drawn(day, hour) ==
            {d \in DOMAIN diurnal :
                ParseInt(Slice(d, 8, Len(d))) = day /\ hour \in DOMAIN diurnal[d]}
        days == {ParseInt(Slice(d, 8, Len(d))) : d \in DOMAIN diurnal}
        hours == UNION {DOMAIN diurnal[d] : d \in DOMAIN diurnal}
    IN  [sq \in {x \in days \X hours : drawn(x[1], x[2]) # {}} |->
            LET top == CHOOSE d \in drawn(sq[1], sq[2]) :
                          \A e \in drawn(sq[1], sq[2]) : LexLeq(e, d)
            IN  GetColor(diurnal[top][sq[2]], Max2(1, HeatmapPeak))]

\* The squares of the heatmap as they are drawn (lines 442-450), by (date,
\* hour): the fill of the rectangle of every cell of the table
HeatmapSquares ==
    [c \in Cells(diurnal) |-> GetColor(diurnal[c[1]][c[2]], Max2(1, HeatmapPeak))]

PlotTypes == {"month", "year"}

\* render(plot_type=...) (lines 274-297).  render_month makes self._img
\* (line 284) before it draws; an exception while drawing leaves it made.
Render(plot_type) ==
    /\ phase = "live"
    /\ op' = "render"
    /\ ret' = NoRet
    /\ IF plot_type # "month"
       THEN raised' = "Exception" /\ img' = img
       ELSE IF ~HistogramThresholdExists
       THEN /\ raised' = "KeyError"
            /\ img' = [exists |-> TRUE, complete |-> FALSE, histogram |-> NoTable,
                       heatmap |-> NoTable, squares |-> NoTable, peak |-> 0]
       ELSE /\ raised' = ""
            /\ img' = [exists |-> TRUE, complete |-> TRUE, histogram |-> Histogram,
                       heatmap |-> Heatmap, squares |-> HeatmapSquares,
                       peak |-> HeatmapPeak]
    /\ UNCHANGED <<dataVars, watchVars, colorVars, estVars>>

\* The mutant of HasImg: save without its check
HasImgAlways == TRUE

\* hasattr(self, "_img") (line 563)
HasImg == img.exists

\* save() (lines 562-575)
Save ==
    /\ phase = "live"
    /\ op' = "save"
    /\ IF ~HasImg
       THEN raised' = "Exception" /\ ret' = NoRet
       ELSE /\ raised' = ""
            /\ ret' = [path |-> OutfilePrefix \o <<"_">>
                                \o StrfMonthRev(FromOrdinal(last_date))
                                \o <<".", "j", "p", "g">>,
                       table |-> NoTable]
    /\ UNCHANGED <<dataVars, img, watchVars, colorVars, estVars>>

(***************************************************************************)
(* FileChangeHandler and the loop of rmob_main                             *)
(***************************************************************************)
Cooldown == 1500

Paths == {"RMOB-202301.dat", "RMOB-202302.dat"}
EventTypes == {"created", "modified", "deleted"}
TickSeconds == {5, 7}

\* __init__ (lines 45-48)
InitWatch ==
    /\ cooldown = 0
    /\ file_path = "None"
    /\ regens = 0
    /\ elapsed = 0

\* The mutant of Gated: no cooldown check
GatedNever == FALSE

\* The first check of on_any_event (line 51)
Gated == cooldown > 0

\* on_any_event(event) (lines 50-58); the handler function runs in the call
OnAnyEvent(src_path, event_type) ==
    /\ regens < MaxRegens
    /\ IF Gated \/ file_path # src_path \/ event_type \notin {"created", "modified"}
       THEN UNCHANGED <<cooldown, regens, elapsed>>
       ELSE /\ cooldown' = cooldown + Cooldown
            /\ regens' = regens + 1
            /\ elapsed' = 0
    /\ UNCHANGED <<file_path, dataVars, callVars, img, colorVars, estVars>>

\* set_file_path(file_path) (lines 60-61), as rmob_main calls it (line 33)
SetFilePath(p) ==
    /\ file_path' = p
    /\ UNCHANGED <<cooldown, regens, elapsed, dataVars, callVars, img, colorVars, estVars>>

\* The value tick gives the counter (line 67)
TickTo(seconds) == Max2(cooldown - seconds, 0)

\* tick(seconds) (lines 66-67); rmob_main calls tick(5) after every sleep
Tick(seconds) ==
    /\ cooldown' = TickTo(seconds)
    /\ elapsed' = Min2(elapsed + seconds, Cooldown)
    /\ UNCHANGED <<file_path, regens, dataVars, callVars, img, colorVars, estVars>>

(***************************************************************************)
(* _get_color as a call                                                    *)
(***************************************************************************)
NoColor == <<>>

ColorIdle == value = 0 /\ max_value = 1 /\ rgb = NoColor

GetColorCall ==
    /\ rgb = NoColor
    /\ rgb' = GetColor(value, max_value)
    /\ UNCHANGED <<value, max_value, dataVars, callVars, img, watchVars, estVars>>

(***************************************************************************)
(* The threshold estimate (lines 192-194) as a call on a list of counts    *)
(***************************************************************************)
CountValues == {0, 1, 2, 9}
MaxCounts == 4

CountLists == UNION {[1..n -> CountValues] : n \in 1..MaxCounts}

EstIdle == est_counts = <<>> /\ est_max_count = -1

EstimateCall ==
    /\ est_max_count = -1
    /\ est_max_count' = Estimate(est_counts)
    /\ UNCHANGED <<est_counts, dataVars, callVars, img, watchVars, colorVars>>

(***************************************************************************)
(* Specifications                                                          *)
(***************************************************************************)
Init == InitData /\ InitWatch /\ ColorIdle /\ EstIdle

\* One RmobData, from its construction on, and the RmobColorgramme on it
Next ==
    \/ \E month \in Months : \E rows \in FilesOf(month) : Update(month, rows)
    \/ ExportRmobTxt
    \/ \E plot_type \in PlotTypes : Render(plot_type)
    \/ Save

Spec == Init /\ [][Next]_vars

\* The watcher: notifications of the observer and the loop of rmob_main
NextWatch ==
    \/ \E p \in Paths \cup {"other"} : \E t \in EventTypes : OnAnyEvent(p, t)
    \/ \E p \in Paths : SetFilePath(p)
    \/ \E seconds \in TickSeconds : Tick(seconds)

SpecWatch == Init /\ [][NextWatch]_vars

\* The color ramp on every pair of arguments of the bounds
InitColor ==
    /\ InitData /\ InitWatch /\ EstIdle
    /\ value \in -1..MaxValue
    /\ max_value \in 1..MaxScale
    /\ rgb = NoColor

SpecColor == InitColor /\ [][GetColorCall]_vars

\* The threshold estimate on every non-empty list of counts of the bounds
InitEstimate ==
    /\ InitData /\ InitWatch /\ ColorIdle
    /\ est_counts \in CountLists
    /\ est_max_count = -1

SpecEstimate == InitEstimate /\ [][EstimateCall]_vars

(***************************************************************************)
(* The claims                                                              *)
(***************************************************************************)
\* The threshold of the one period aggregated, when one update call was made
OnlyThreshold == thresholds[CHOOSE k \in DOMAIN thresholds : TRUE]

\* C1: in the report written after a period was aggregated, for every day of
\* the month and every hour 0..23, the cell is the placeholder "??? " if and
\* only if the hour is missing from the diurnal table for that date or its
\* count exceeds the period's threshold; every other cell shows the count.
C1_ReportMasksEveryDay ==
    (op = "export_rmob_txt" /\ calls = 1) =>
        \A day \in DOMAIN ret.table : \A h \in 0..23 :
            LET date == [FromOrdinal(last_date) EXCEPT !.day = day]
                hours == Entry(diurnal, StrfDate(date))
                masked == h \notin DOMAIN hours \/ hours[h] * Scale > OnlyThreshold
            IN  /\ (ret.table[day][h] = Placeholder) <=> masked
                /\ ~masked =>
                     ret.table[day][h] =
                        SpacePad(ZeroPad(FormatInt(hours[h]), 3), 4) \o <<"|">>

\* C2: a row with at least 3 fields whose count, hour or date is not numeric
\* fails only that row: update skips it and does not raise.
C2_MalformedRowSkipped == op = "update" => raised # "ValueError"

\* C3: the threshold map holds exactly one entry per aggregated period, keyed
\* by the ordinal of the first day of the period's month: every key is such an
\* ordinal, and the period of the last successful update has its entry.
C3_ThresholdsKeyedByPeriod ==
    /\ DOMAIN thresholds \subseteq {ToOrdinal(m) : m \in Months}
    /\ lastcall.ok => lastcall.month \in DOMAIN thresholds

\* C4: after successful aggregations neither export_rmob_txt nor render fails
\* because a threshold or a diurnal entry is missing for a requested date.
C4_NoMissingEntryFailure ==
    op \in {"export_rmob_txt", "render"} => raised # "KeyError"

\* The sum of the squares of a list
SumSq(xs) == Sum([i \in 1..Len(xs) |-> xs[i] * xs[i]])

\* t / Scale <= mean + 1.28 * sd for the list xs, sd with the denominator
\* n + 1 and the sum of the squared deviations taken as SumSq - Sum^2 / n
BelowCeiling(t, xs) ==
    LET n == Len(xs)
        L == t * n - Scale * Sum(xs)
    IN  \/ L <= 0
        \/ L * L * 625 * (n + 1) <= Scale * Scale * 1024 * n * (n * SumSq(xs) - Sum(xs) * Sum(xs))

\* t is min(mean + 1.28 * sd, max(xs)) in fixed point
IsCappedCeiling(t, xs) ==
    /\ t <= Scale * MaxOf(xs)
    /\ BelowCeiling(t, xs)
    /\ t < Scale * MaxOf(xs) => ~BelowCeiling(t + 1, xs)

\* C5: for every non-empty set of counts aggregated by update, the stored
\* threshold is min(mean + 1.28 * sd, max(counts)), sd with the denominator
\* n + 1, and so it never exceeds the largest count.
C5_StoredThresholdIsCappedCeiling ==
    lastcall.ok =>
        /\ lastcall.key \in DOMAIN thresholds
        /\ IsCappedCeiling(thresholds[lastcall.key], CountsOf(lastcall.batch))
        /\ thresholds[lastcall.key] <= Scale * MaxOf(CountsOf(lastcall.batch))

\* C5, witness: three counts aggregated, a spike among them, and the stored
\* threshold below the spike
C5_Witness ==
    /\ lastcall.ok
    /\ Len(CountsOf(lastcall.batch)) = 3
    /\ thresholds[lastcall.key] < Scale * MaxOf(CountsOf(lastcall.batch))
    /\ thresholds[lastcall.key] > Scale * MinOf(CountsOf(lastcall.batch))

\* C6: the handler function is invoked by a notification only when the
\* cooldown counter is 0; the invocation sets the counter to 1500; a tick of s
\* seconds lowers the counter by s and never below 0; and a second invocation
\* comes only when the ticks since the one before it sum to 1500 at least.
C6_CooldownGate ==
    [][ /\ regens' # regens =>
              /\ cooldown = 0
              /\ cooldown' = Cooldown
              /\ regens > 0 => elapsed = Cooldown
        /\ (regens' = regens /\ cooldown' # cooldown) =>
              \E s \in TickSeconds :
                 cooldown' = IF cooldown - s > 0 THEN cooldown - s ELSE 0
        /\ cooldown' >= 0
        /\ regens' > 0 => cooldown' = Cooldown - elapsed' ]_vars

\* C6, witness: a second invocation, the counter at 1500 again
C6_Witness == regens = 2 /\ cooldown = Cooldown /\ elapsed = 0

\* C7: _get_color(value, M) with M > 0 is (0,0,255) for value = 0, (255,0,0)
\* for value = M and (128,128,128) for every value > M.
C7_ColorRampEnds ==
    rgb # NoColor =>
        /\ value = 0 => rgb = <<0, 0, 255>>
        /\ value = max_value => rgb = <<255, 0, 0>>
        /\ value > max_value => rgb = <<128, 128, 128>>

\* C7, witness: a value far above the scale, colored gray
C7_Witness == rgb = <<128, 128, 128>> /\ value > 2 * max_value /\ max_value > 1

\* C8: an update call that repeats the successful call before it (the same
\* month, the same rows read) leaves the diurnal table, the threshold map,
\* first_date and last_date as they were after that call.
C8_SecondAggregationChangesNothing ==
    [][ (calls' = calls + 1 /\ lastcall'.again) =>
            /\ diurnal' = diurnal
            /\ thresholds' = thresholds
            /\ first_date' = first_date
            /\ last_date' = last_date ]_vars

\* C8, witness: the same three rows aggregated twice
C8_Witness ==
    /\ calls = 2
    /\ lastcall.again
    /\ Len(CountsOf(lastcall.batch)) = 3
    /\ diurnal = lastcall.batch

\* The path save writes by default
JpgPath ==
    OutfilePrefix \o <<"_">> \o StrfMonthRev(FromOrdinal(last_date)) \o <<".", "j", "p", "g">>

\* C9: save before any render fails with an invalid-state error and writes
\* nothing; save after a completed render succeeds and returns the written path.
C9_SaveNeedsRender ==
    op = "save" =>
        /\ ~img.exists => (raised = "Exception" /\ ret = NoRet)
        /\ img.complete => (raised = "" /\ ret.path = JpgPath)

\* C9, witness: a save after a completed render
C9_Witness == op = "save" /\ img.complete /\ raised = "" /\ ret.path = JpgPath

\* C10, as the claim states it, read once an estimate was made: some
\* non-empty list of counts has a threshold strictly below its smallest count.
C10_SomeThresholdBelowMin ==
    est_max_count # -1 =>
        \E xs \in CountLists : Estimate(xs) < Scale * MinOf(xs)

\* C10, amended: the threshold of a non-empty list of counts is never below
\* its smallest count (and never above its largest).
C10_ThresholdAtLeastMin ==
    est_max_count # -1 =>
        /\ est_max_count >= Scale * MinOf(est_counts)
        /\ est_max_count <= Scale * MaxOf(est_counts)

\* C10, witness: low counts close together and one spike; the threshold is
\* between the smallest count and the spike
C10_Witness ==
    /\ est_counts = <<1, 1, 1, 9>>
    /\ est_max_count > Scale * 1
    /\ est_max_count < Scale * 9


\* The period of a date of the table: the ordinal of the first day of its month
PeriodOf(date_str) ==
    ToOrdinal([year |-> ParseInt(Slice(date_str, 0, 4)),
               month |-> ParseInt(Slice(date_str, 5, 7)),
               day |-> 1])

\* C11: after successful updates of one or several periods, a completed
\* render draws a cell of the heatmap in gray (128,128,128) if and only if its
\* count exceeds the threshold of its own period.
C11_HeatmapGrayIffOverOwnThreshold ==
    (op = "render" /\ raised = "") =>
        \A c \in DOMAIN img.squares :
            /\ PeriodOf(c[1]) \in DOMAIN max_counts
            /\ img.squares[c] = <<128, 128, 128>>
                   <=> diurnal[c[1]][c[2]] * Scale > max_counts[PeriodOf(c[1])]

\* C12: an update of an existing RmobData that raises leaves the diurnal
\* table, the threshold map, first_date and last_date as they were.
C12_FailedUpdateChangesNothing ==
    [][ (phase = "live" /\ calls' = calls + 1 /\ raised' # "") =>
            /\ diurnal' = diurnal
            /\ thresholds' = thresholds
            /\ first_date' = first_date
            /\ last_date' = last_date ]_vars

====
